---- MODULE Spec2Model ----
(***************************************************************************)
(* un-fstring: conversion of f-string literals to .format() calls          *)
(* (src/un_fstring.py).                                                    *)
(*                                                                         *)
(* Source text is a sequence of one-character strings.  The lexer          *)
(* (tokenize_rt.src_to_tokens), the parsers (ast.parse, astroid's          *)
(* extract_node) and the printers (repr, as_string) are modelled on the    *)
(* fragment of Python the bounded inputs are written in, with the          *)
(* positions CPython 3.8 - 3.11 reports: an f-string is one STRING token,  *)
(* a JoinedStr built from adjacent string tokens sits at the first token,  *)
(* a format specifier's JoinedStr sits at the start of its own token and   *)
(* a nested literal sits inside the token that holds it.                   *)
(***************************************************************************)
EXTENDS Integers, Sequences, FiniteSets, TLC

VARIABLES
    src,        \* convert_f_strings_to_strings_format: the argument src
    pc,         \* its position: start, parsed, loop, done, raised
    fstrings,   \* visitor.fstrings, as the set of its keys (offsets)
    tokens,     \* the list tokens
    idx,        \* the loop index of enumerate(tokens), 1-based
    out,        \* the returned text
    err,        \* the exception that left the function, "" when none
    pass,       \* 1: the call on the input, 2: the call on its own output
    fpc,        \* convert_file: its position
    WINDOWS,    \* the module constant WINDOWS (os.name == "nt")
    dry_run,    \* convert_file: the argument dry_run
    conversions,\* convert_file: the argument conversions (names of functions)
    cidx,       \* convert_file: the loop index over conversions, 1-based
    fsrc,       \* convert_file: the local src
    mod,        \* convert_file: the local mod
    disk,       \* the file system: the content of file and of file + ".tmp"
    was_modified\* convert_file: the returned flag

vars == <<src, pc, fstrings, tokens, idx, out, err, pass,
          fpc, WINDOWS, dry_run, conversions, cidx, fsrc, mod, disk, was_modified>>

convVars == <<src, pc, fstrings, tokens, idx, out, err, pass>>
fileVars == <<fpc, WINDOWS, dry_run, conversions, cidx, fsrc, mod, disk, was_modified>>

----------------------------------------------------------------------------
(* Text helpers *)

DQ == "\""
SQ == "'"
NL == "\n"

RECURSIVE Flatten(_)
Flatten(ss) == IF ss = <<>> THEN <<>> ELSE Head(ss) \o Flatten(Tail(ss))

RECURSIVE FindChar(_, _, _)
\* str.find from index i: the first index >= i holding c, 0 when there is none
FindChar(s, i, c) ==
    IF i > Len(s) THEN 0
    ELSE IF s[i] = c THEN i ELSE FindChar(s, i + 1, c)

Contains(s, c) == \E i \in 1..Len(s) : s[i] = c

At(s, i) == IF i >= 1 /\ i <= Len(s) THEN s[i] ELSE ""

StartsWith(s, c) == Len(s) >= 1 /\ s[1] = c

IsQuote(c) == c \in {DQ, SQ}

IsNameChar(c) == c \in {"a", "b", "f", "m", "o", "r", "t", "w", "x", "y", "z"}

----------------------------------------------------------------------------
(* tokenize_rt: src_to_tokens, tokens_to_src, Token.offset *)

RECURSIVE NameEnd(_, _)
NameEnd(s, i) == IF IsNameChar(At(s, i + 1)) THEN NameEnd(s, i + 1) ELSE i

RECURSIVE SpaceEnd(_, _)
SpaceEnd(s, i) == IF At(s, i + 1) = " " THEN SpaceEnd(s, i + 1) ELSE i

\* the index of the last character of the token that starts at i
TokenEnd(s, i) ==
    LET c == s[i]
        strAt(q) == LET e == FindChar(s, q + 1, s[q]) IN IF e = 0 THEN Len(s) ELSE e
    IN  IF IsQuote(c) THEN strAt(i)
        ELSE IF c \in {"f", "F"} /\ IsQuote(At(s, i + 1)) THEN strAt(i + 1)
        ELSE IF c = " " THEN SpaceEnd(s, i)
        ELSE IF c = "#" THEN
             LET e == FindChar(s, i, NL) IN IF e = 0 THEN Len(s) ELSE e - 1
        ELSE IF IsNameChar(c) THEN NameEnd(s, i)
        ELSE i

TokenName(s, i) ==
    LET c == s[i]
    IN  IF IsQuote(c) \/ (c \in {"f", "F"} /\ IsQuote(At(s, i + 1))) THEN "STRING"
        ELSE IF c = " " THEN "UNIMPORTANT_WS"
        ELSE IF c = "#" THEN "COMMENT"
        ELSE IF c = NL THEN "NEWLINE"
        ELSE IF IsNameChar(c) THEN "NAME"
        ELSE "OP"

Token(name, text, line, col) ==
    [name |-> name, src |-> text, line |-> line, utf8_byte_offset |-> col]

RECURSIVE Scan(_, _, _, _)
Scan(s, i, line, col) ==
    IF i > Len(s) THEN <<>>
    ELSE LET j == TokenEnd(s, i)
         IN  <<Token(TokenName(s, i), SubSeq(s, i, j), line, col)>>
             \o Scan(s, j + 1,
                     IF s[i] = NL THEN line + 1 ELSE line,
                     IF s[i] = NL THEN 0 ELSE col + (j - i + 1))

src_to_tokens(s) == Scan(s, 1, 1, 0)

tokens_to_src(toks) == Flatten([i \in 1..Len(toks) |-> toks[i].src])

Offset(token) == <<token.line, token.utf8_byte_offset>>

----------------------------------------------------------------------------
(* astroid.extract_node on one token: the JoinedStr node and its children *)

Const(text) ==
    [kind |-> "Const", value |-> text, expr |-> [kind |-> "", name |-> <<>>, col |-> 0],
     conversion |-> -1, format_spec |-> [present |-> FALSE, values |-> <<>>]]

FormattedValue(expr, conversion, format_spec) ==
    [kind |-> "FormattedValue", value |-> <<>>, expr |-> expr,
     conversion |-> conversion, format_spec |-> format_spec]

\* ord() of the conversion character, as ast stores it; -1 when there is none
ConversionCode(c) ==
    CASE c = "s" -> 115 [] c = "r" -> 114 [] c = "a" -> 97 [] OTHER -> -1

\* the embedded expression that starts at i: a name, or a nested literal f'{name}'
ExprEnd(s, i) ==
    IF At(s, i) = "f" /\ IsQuote(At(s, i + 1))
    THEN LET e == FindChar(s, i + 2, s[i + 1]) IN IF e = 0 THEN Len(s) ELSE e
    ELSE NameEnd(s, i)

ExprNode(s, i) ==
    LET e == ExprEnd(s, i)
    IN  IF At(s, i) = "f" /\ IsQuote(At(s, i + 1))
        THEN [kind |-> "JoinedStr", name |-> SubSeq(s, i + 3, e - 2), col |-> i - 1]
        ELSE [kind |-> "Name", name |-> SubSeq(s, i, e), col |-> i - 1]

RECURSIVE ParseSpec(_, _, _)
\* the values of a format specifier from index i up to its closing brace;
\* next is the index after that brace
ParseSpec(s, i, text) ==
    LET flush == IF text = <<>> THEN <<>> ELSE <<Const(text)>>
    IN  IF i > Len(s) \/ s[i] = "}" THEN [values |-> flush, next |-> i + 1]
        ELSE IF s[i] = "{" THEN
             LET e    == ExprEnd(s, i + 1)
                 rest == ParseSpec(s, e + 2, <<>>)
                 fv   == FormattedValue(ExprNode(s, i + 1), -1,
                                        [present |-> FALSE, values |-> <<>>])
             IN  [values |-> flush \o <<fv>> \o rest.values, next |-> rest.next]
        ELSE ParseSpec(s, i + 1, Append(text, s[i]))

RECURSIVE ParseValues(_, _, _, _)
\* the children of the literal whose body runs from index i to e - 1
ParseValues(s, i, e, text) ==
    LET flush == IF text = <<>> THEN <<>> ELSE <<Const(text)>>
    IN  IF i >= e THEN flush
        ELSE IF s[i] \in {"{", "}"} /\ At(s, i + 1) = s[i]
             THEN ParseValues(s, i + 2, e, Append(text, s[i]))
        ELSE IF s[i] = "{" THEN
             LET x    == ExprEnd(s, i + 1)
                 conv == IF At(s, x + 1) = "!" THEN ConversionCode(At(s, x + 2)) ELSE -1
                 k    == IF At(s, x + 1) = "!" THEN x + 3 ELSE x + 1
                 spec == IF At(s, k) = ":" THEN ParseSpec(s, k + 1, <<>>)
                         ELSE [values |-> <<>>, next |-> k + 1]
                 fv   == FormattedValue(ExprNode(s, i + 1), conv,
                            [present |-> At(s, k) = ":", values |-> spec.values])
             IN  flush \o <<fv>> \o ParseValues(s, spec.next, e, <<>>)
        ELSE ParseValues(s, i + 1, e, Append(text, s[i]))

\* node.get_children() of astroid.extract_node(text); a node that is no f-string
\* (a name, a plain string) has no Const or FormattedValue child
extract_node(text) ==
    IF Len(text) >= 3 /\ text[1] \in {"f", "F"} /\ IsQuote(text[2])
    THEN ParseValues(text, 3, Len(text), <<>>)
    ELSE <<>>

----------------------------------------------------------------------------
(* Printers: repr of a str, str of an astroid Name, as_string of a node *)

RECURSIVE Escape(_, _)
Escape(s, q) ==
    IF s = <<>> THEN <<>>
    ELSE (IF Head(s) = q THEN <<"\\", q>> ELSE <<Head(s)>>) \o Escape(Tail(s), q)

\* repr(str): single quotes, unless the text holds a single and no double quote
PyRepr(s) ==
    LET q == IF Contains(s, SQ) /\ ~Contains(s, DQ) THEN DQ ELSE SQ
    IN  <<q>> \o Escape(s, q) \o <<q>>

\* str() of an astroid node, what an f-string field makes of it: Name.w(name='w')
NodeStr(expr) ==
    IF expr.kind = "Name"
    THEN <<"N", "a", "m", "e", ".">> \o expr.name
         \o <<"(", "n", "a", "m", "e", "=", SQ>> \o expr.name \o <<SQ, ")">>
    ELSE <<"J", "o", "i", "n", "e", "d", "S", "t", "r", "(", ")">>

\* as_string of an expression node
AsString(expr) ==
    IF expr.kind = "JoinedStr"
    THEN <<"f", SQ, "{">> \o expr.name \o <<"}", SQ>>
    ELSE expr.name

RECURSIVE JoinArgs(_)
\* ", ".join of the arguments' as_string
JoinArgs(args) ==
    IF args = <<>> THEN <<>>
    ELSE IF Len(args) = 1 THEN AsString(args[1])
    ELSE AsString(args[1]) \o <<",", " ">> \o JoinArgs(Tail(args))

----------------------------------------------------------------------------
(* convert_f_string_to_format_string *)

CONVERSIONS(c) ==
    CASE c = -1 -> <<>> [] c = 115 -> <<"!", "s">>
      [] c = 114 -> <<"!", "r">> [] c = 97 -> <<"!", "a">>

\* child.format_spec.values[0].value inside the f-string of line 73
SpecText(format_spec) ==
    LET first == format_spec.values[1]
    IN  IF first.kind = "Const" THEN first.value ELSE NodeStr(first.expr)

\* the text appended to format_string_parts for one child
FormatStringPart(child) ==
    IF child.kind = "Const" THEN child.value
    ELSE <<"{">> \o CONVERSIONS(child.conversion)
         \o (IF child.format_spec.present
             THEN <<":">> \o SpecText(child.format_spec) ELSE <<>>)
         \o <<"}">>

\* whether building a child's part raises: values[0] of an empty specifier
PartRaises(child) ==
    /\ child.kind = "FormattedValue"
    /\ child.format_spec.present
    /\ child.format_spec.values = <<>>

FormatStringParts(children) ==
    [i \in 1..Len(children) |-> FormatStringPart(children[i])]

FormatArgs(children) ==
    LET fv == SelectSeq(children, LAMBDA c : c.kind = "FormattedValue")
    IN  [i \in 1..Len(fv) |-> fv[i].expr]

\* format_call.as_string(): repr of the joined parts, .format( the arguments )
FormatCall(parts, args) ==
    PyRepr(Flatten(parts)) \o <<".", "f", "o", "r", "m", "a", "t", "(">>
    \o JoinArgs(args) \o <<")">>

convert_f_string_to_format_string(text) ==
    LET children == extract_node(text)
    IN  IF \E i \in 1..Len(children) : PartRaises(children[i])
        THEN [raised |-> TRUE, err |-> "IndexError", text |-> <<>>]
        ELSE [raised |-> FALSE, err |-> "",
              text |-> FormatCall(FormatStringParts(children), FormatArgs(children))]

----------------------------------------------------------------------------
(* ast.parse and FindFStrings *)

IsFString(token) ==
    token.name = "STRING" /\ Len(token.src) >= 1 /\ token.src[1] \in {"f", "F"}

Significant(token) == token.name \notin {"UNIMPORTANT_WS", "COMMENT"}

RECURSIVE PrevSignificant(_, _)
\* the index of the last significant token before i, 0 when there is none
PrevSignificant(toks, i) ==
    IF i <= 1 THEN 0
    ELSE IF Significant(toks[i - 1]) THEN i - 1 ELSE PrevSignificant(toks, i - 1)

\* adjacent string tokens are one node: the first token of such a run
RunStart(toks, i) ==
    /\ toks[i].name = "STRING"
    /\ LET p == PrevSignificant(toks, i) IN p = 0 \/ toks[p].name # "STRING"

RECURSIVE RunHasFString(_, _)
RunHasFString(toks, i) ==
    IF i > Len(toks) THEN FALSE
    ELSE IF toks[i].name = "STRING"
         THEN IsFString(toks[i]) \/ RunHasFString(toks, i + 1)
    ELSE IF ~Significant(toks[i]) THEN RunHasFString(toks, i + 1)
    ELSE FALSE

\* ast.parse raises SyntaxError: an unterminated string, unbalanced brackets,
\* a stray operator, or two atoms side by side
RECURSIVE Depth(_, _)
Depth(toks, i) ==
    IF i = 0 THEN 0
    ELSE Depth(toks, i - 1)
         + (IF toks[i].src = <<"(">> THEN 1 ELSE IF toks[i].src = <<")">> THEN -1 ELSE 0)

Terminated(token) ==
    LET t == token.src
        q == IF t[1] \in {"f", "F"} THEN 2 ELSE 1
    IN  Len(t) >= q + 1 /\ t[Len(t)] = t[q]

Atom(token) == token.name \in {"STRING", "NAME"} \/ token.src = <<")">>

Parses(s) ==
    LET toks == src_to_tokens(s)
    IN  /\ \A i \in 1..Len(toks) :
             /\ toks[i].name = "STRING" => Terminated(toks[i])
             /\ toks[i].name = "OP" => toks[i].src \in {<<"(">>, <<")">>, <<".">>, <<",">>}
             /\ Depth(toks, i) >= 0
             /\ LET p == PrevSignificant(toks, i)
                IN  (p > 0 /\ Significant(toks[i]) /\ Atom(toks[p]))
                       => \/ toks[i].name \notin {"STRING", "NAME"}
                          \/ toks[p].name = "STRING" /\ toks[i].name = "STRING"
        /\ Depth(toks, Len(toks)) = 0

\* the offsets FindFStrings records: each JoinedStr node the visitor reaches
NodeOffsets(token) ==
    LET children == extract_node(token.src)
    IN  { <<token.line, token.utf8_byte_offset>> :
              i \in { k \in 1..Len(children) : children[k].format_spec.present } }
        \cup
        { <<token.line, token.utf8_byte_offset + children[i].expr.col>> :
              i \in { k \in 1..Len(children) : children[k].expr.kind = "JoinedStr" } }

FindFStrings(s) ==
    LET toks == src_to_tokens(s)
    IN  { Offset(toks[i]) : i \in { k \in 1..Len(toks) :
                                      RunStart(toks, k) /\ RunHasFString(toks, k) } }
        \cup
        UNION { NodeOffsets(toks[i]) : i \in { k \in 1..Len(toks) : IsFString(toks[k]) } }

----------------------------------------------------------------------------
(* convert_f_strings_to_strings_format *)

\* line 41 without the position test (a slip of the code, used to try the claims)
EligibleByPrefixOnly(token, located) == StartsWith(token.src, "f")

\* the condition of line 41
Eligible(token, located) ==
    Offset(token) \in located /\ StartsWith(token.src, "f")

\* lines 42-47 writing one slot too early (a slip of the code, used to try the claims)
ReplaceTokenOffByOne(toks, i, text) ==
    LET j == IF i > 1 THEN i - 1 ELSE i
    IN  [toks EXCEPT ![j] = Token(toks[i].name, text, toks[i].line, toks[i].utf8_byte_offset)]

\* the assignment of lines 42-47
ReplaceToken(toks, i, text) ==
    [toks EXCEPT ![i] = Token(toks[i].name, text, toks[i].line, toks[i].utf8_byte_offset)]

Parse ==
    /\ pc = "start"
    /\ IF Parses(src)
       THEN /\ fstrings' = FindFStrings(src)
            /\ pc' = "parsed"
            /\ err' = err
       ELSE /\ pc' = "raised"
            /\ err' = "SyntaxError"
            /\ fstrings' = fstrings
    /\ UNCHANGED <<src, tokens, idx, out, pass>>
    /\ UNCHANGED fileVars

Tokenize ==
    /\ pc = "parsed"
    /\ tokens' = src_to_tokens(src)
    /\ idx' = 1
    /\ pc' = "loop"
    /\ UNCHANGED <<src, fstrings, out, err, pass>>
    /\ UNCHANGED fileVars

Skip ==
    /\ pc = "loop"
    /\ idx <= Len(tokens)
    /\ ~Eligible(tokens[idx], fstrings)
    /\ idx' = idx + 1
    /\ UNCHANGED <<src, pc, fstrings, tokens, out, err, pass>>
    /\ UNCHANGED fileVars

Replace ==
    /\ pc = "loop"
    /\ idx <= Len(tokens)
    /\ Eligible(tokens[idx], fstrings)
    /\ LET r == convert_f_string_to_format_string(tokens[idx].src)
       IN  IF r.raised
           THEN /\ pc' = "raised"
                /\ err' = r.err
                /\ UNCHANGED <<tokens, idx>>
           ELSE /\ tokens' = ReplaceToken(tokens, idx, r.text)
                /\ idx' = idx + 1
                /\ UNCHANGED <<pc, err>>
    /\ UNCHANGED <<src, fstrings, out, pass>>
    /\ UNCHANGED fileVars

Return ==
    /\ pc = "loop"
    /\ idx > Len(tokens)
    /\ out' = tokens_to_src(tokens)
    /\ pc' = "done"
    /\ UNCHANGED <<src, fstrings, tokens, idx, err, pass>>
    /\ UNCHANGED fileVars

\* a second call, on the text the first call returned
SecondPass ==
    /\ pc = "done"
    /\ pass = 1
    /\ src' = out
    /\ pass' = 2
    /\ pc' = "start"
    /\ fstrings' = {}
    /\ tokens' = <<>>
    /\ idx' = 0
    /\ out' = <<>>
    /\ UNCHANGED err
    /\ UNCHANGED fileVars

----------------------------------------------------------------------------
(* Inputs *)

MaxParts == 2

Fields ==
    { <<"{", "x", "}">>,
      <<"{", "y", "!", "r", "}">>,
      <<"{", "x", "!", "s", "}">>,
      <<"{", "y", "!", "a", ":", "2", "}">>,
      <<"{", "x", ":", "}">>,
      <<"{", "x", ":", ">", "{", "w", "}", "}">>,
      <<"{", "y", ":", "{", "w", "}", "}">>,
      <<"{", "f", SQ, "{", "z", "}", SQ, "}">> }

TextPieces == { <<"a">>, <<"{", "{">>, <<"}", "}">> }

RECURSIVE Bodies(_)
Bodies(n) ==
    IF n = 0 THEN {<<>>}
    ELSE Bodies(n - 1)
         \cup { b \o p : b \in Bodies(n - 1), p \in Fields \cup TextPieces }

Literals == { <<"f", DQ>> \o b \o <<DQ>> : b \in Bodies(MaxParts) }

Before ==
    { <<>>,
      <<DQ, "a", DQ, " ">>,
      <<"f", "o", "o", NL>>,
      <<"F", DQ, "{", "x", "}", DQ, NL>> }

After ==
    { <<>>,
      <<" ", DQ, "b", DQ>>,
      <<" ", "#", "b", NL, "f", DQ, "{", "y", "!", "r", "}", DQ>> }

PlainSources ==
    { <<>>,
      <<"f", "o", "o", NL>>,
      <<DQ, "a", DQ, " ", SQ, "{", "}", SQ, " ", "#", "f", NL>>,
      <<"f", "(", DQ, "{", "x", "}", DQ, ",", " ", "x", ")", NL, "#", "b">>,
      <<SQ, "{", "}", SQ, ".", "f", "o", "r", "m", "a", "t", "(", "x", ")">>,
      <<"f", "o", "o", " ", DQ, "a", DQ>>,
      <<"(", NL>> }

Sources ==
    PlainSources \cup { b \o l \o a : b \in Before, l \in Literals, a \in After }

FileIdle ==
    /\ fpc = "idle"
    /\ WINDOWS = FALSE
    /\ dry_run = FALSE
    /\ conversions = <<>>
    /\ cidx = 0
    /\ fsrc = <<>>
    /\ mod = <<>>
    /\ disk = [file |-> [exists |-> FALSE, content |-> <<>>],
               tmp |-> [exists |-> FALSE, content |-> <<>>]]
    /\ was_modified = FALSE

Init ==
    /\ src \in Sources
    /\ pc = "start"
    /\ fstrings = {}
    /\ tokens = <<>>
    /\ idx = 0
    /\ out = <<>>
    /\ err = ""
    /\ pass = 1
    /\ FileIdle

Next == Parse \/ Tokenize \/ Skip \/ Replace \/ Return \/ SecondPass

Spec == Init /\ [][Next]_vars

----------------------------------------------------------------------------
(* convert_file *)

\* convert_f_strings_to_strings_format as one function of its argument:
\* the result of Parse, Tokenize, the loop of Skip and Replace, and Return
convert_f_strings_to_strings_format(s) ==
    IF ~Parses(s) THEN [raised |-> TRUE, err |-> "SyntaxError", text |-> <<>>]
    ELSE LET located == FindFStrings(s)
             toks    == src_to_tokens(s)
             hit     == { i \in 1..Len(toks) : Eligible(toks[i], located) }
             conv(i) == convert_f_string_to_format_string(toks[i].src)
         IN  IF \E i \in hit : conv(i).raised
             THEN [raised |-> TRUE, err |-> "IndexError", text |-> <<>>]
             ELSE [raised |-> FALSE, err |-> "",
                   text |-> tokens_to_src(
                       [i \in 1..Len(toks) |->
                           IF i \in hit THEN ReplaceToken(toks, i, conv(i).text)[i]
                           ELSE toks[i]])]

\* the callables a caller passes as conversions
Conversions == {"un_fstring", "append_a", "append_b", "fail"}

Call(conversion, text) ==
    CASE conversion = "un_fstring" -> convert_f_strings_to_strings_format(text)
      [] conversion = "append_a" -> [raised |-> FALSE, err |-> "", text |-> text \o <<"a">>]
      [] conversion = "append_b" -> [raised |-> FALSE, err |-> "", text |-> text \o <<"b">>]
      [] conversion = "fail" -> [raised |-> TRUE, err |-> "ValueError", text |-> <<>>]

\* line 124: what each conversion is called on
ConversionInput(original, current) == original

\* lines 130-134 writing the file itself on every platform (a slip of the code,
\* used to try the claims)
WriteTargetAlwaysFile(windows) == "file"

\* lines 130-134: the path write_text is called on
WriteTarget(windows) == IF windows THEN "file" ELSE "tmp"

Missing == [exists |-> FALSE, content |-> <<>>]

ReadText ==
    /\ fpc = "start"
    /\ fsrc' = disk.file.content
    /\ mod' = disk.file.content
    /\ cidx' = 1
    /\ fpc' = "loop"
    /\ UNCHANGED <<WINDOWS, dry_run, conversions, disk, was_modified>>
    /\ UNCHANGED convVars

RunConversion ==
    /\ fpc = "loop"
    /\ cidx <= Len(conversions)
    /\ LET r == Call(conversions[cidx], ConversionInput(fsrc, mod))
       IN  IF r.raised
           THEN /\ fpc' = "raised"
                /\ UNCHANGED <<mod, cidx>>
           ELSE /\ mod' = r.text
                /\ cidx' = cidx + 1
                /\ fpc' = fpc
    /\ UNCHANGED <<WINDOWS, dry_run, conversions, fsrc, disk, was_modified>>
    /\ UNCHANGED convVars

Compare ==
    /\ fpc = "loop"
    /\ cidx > Len(conversions)
    /\ was_modified' = (fsrc # mod)
    /\ fpc' = IF fsrc # mod /\ ~dry_run THEN "open"
              ELSE IF fsrc # mod /\ dry_run THEN "diff"
              ELSE "return"
    /\ UNCHANGED <<WINDOWS, dry_run, conversions, cidx, fsrc, mod, disk>>
    /\ UNCHANGED convVars

\* write_text opens its path for writing, which creates or empties the file
OpenForWrite ==
    /\ fpc = "open"
    /\ disk' = [disk EXCEPT ![WriteTarget(WINDOWS)] = [exists |-> TRUE, content |-> <<>>]]
    /\ fpc' = "write"
    /\ UNCHANGED <<WINDOWS, dry_run, conversions, cidx, fsrc, mod, was_modified>>
    /\ UNCHANGED convVars

\* the text reaches the file a piece at a time
WriteSome ==
    /\ fpc = "write"
    /\ LET t == WriteTarget(WINDOWS)
           n == Len(disk[t].content)
       IN  /\ n < Len(mod)
           /\ disk' = [disk EXCEPT ![t].content = Append(@, mod[n + 1])]
    /\ UNCHANGED <<fpc, WINDOWS, dry_run, conversions, cidx, fsrc, mod, was_modified>>
    /\ UNCHANGED convVars

CloseFile ==
    /\ fpc = "write"
    /\ disk[WriteTarget(WINDOWS)].content = mod
    /\ fpc' = IF WINDOWS THEN "return" ELSE "rename"
    /\ UNCHANGED <<WINDOWS, dry_run, conversions, cidx, fsrc, mod, disk, was_modified>>
    /\ UNCHANGED convVars

\* tmp_file.rename(file): the file's content changes in one step
Rename ==
    /\ fpc = "rename"
    /\ disk' = [file |-> disk.tmp, tmp |-> Missing]
    /\ fpc' = "return"
    /\ UNCHANGED <<WINDOWS, dry_run, conversions, cidx, fsrc, mod, was_modified>>
    /\ UNCHANGED convVars

PrintDiff ==
    /\ fpc = "diff"
    /\ fpc' = "return"
    /\ UNCHANGED <<WINDOWS, dry_run, conversions, cidx, fsrc, mod, disk, was_modified>>
    /\ UNCHANGED convVars

\* the process is interrupted in the middle of the call
Interrupt ==
    /\ fpc \in {"loop", "open", "write", "rename", "diff"}
    /\ fpc' = "interrupted"
    /\ UNCHANGED <<WINDOWS, dry_run, conversions, cidx, fsrc, mod, disk, was_modified>>
    /\ UNCHANGED convVars

MaxConversions == 2

RECURSIVE SeqsUpTo(_, _)
SeqsUpTo(S, n) ==
    IF n = 0 THEN {<<>>}
    ELSE SeqsUpTo(S, n - 1)
         \cup { Append(q, x) : q \in { p \in SeqsUpTo(S, n - 1) : Len(p) = n - 1 }, x \in S }

FileContents ==
    { <<>>,
      <<"x", NL>>,
      <<"f", DQ, "{", "x", "}", DQ>>,
      <<"f", DQ, "{", "f", SQ, "{", "z", "}", SQ, "}", DQ>>,
      <<"f", DQ, "{", "x", ":", "}", DQ>>,
      <<"(", NL>> }

ConvIdle ==
    /\ src = <<>>
    /\ pc = "idle"
    /\ fstrings = {}
    /\ tokens = <<>>
    /\ idx = 0
    /\ out = <<>>
    /\ err = ""
    /\ pass = 0

FileInit ==
    /\ fpc = "start"
    /\ WINDOWS \in BOOLEAN
    /\ dry_run \in BOOLEAN
    /\ conversions \in SeqsUpTo(Conversions, MaxConversions)
    /\ cidx = 0
    /\ fsrc = <<>>
    /\ mod = <<>>
    /\ disk \in { [file |-> [exists |-> TRUE, content |-> c], tmp |-> Missing] :
                    c \in FileContents }
    /\ was_modified = FALSE
    /\ ConvIdle

FileNext ==
    \/ ReadText \/ RunConversion \/ Compare \/ OpenForWrite \/ WriteSome
    \/ CloseFile \/ Rename \/ PrintDiff \/ Interrupt

FileSpec == FileInit /\ [][FileNext]_vars

----------------------------------------------------------------------------
(* Vocabulary of the claims *)

\* the source has an f-string literal: a string token with the prefix f or F
HasFString(s) ==
    LET toks == src_to_tokens(s) IN \E i \in 1..Len(toks) : IsFString(toks[i])

\* the lexemes of the input, before any replacement
Original == src_to_tokens(src)

\* the lexemes the loop has replaced so far
Replaced ==
    LET orig == Original
    IN  IF pc \in {"loop", "done"} /\ Len(tokens) = Len(orig)
        THEN { i \in 1..Len(tokens) : tokens[i].src # orig[i].src }
        ELSE {}

\* the template of a synthesized call: the text inside its leading string
Template(call) == SubSeq(call, 2, FindChar(call, 2, call[1]) - 1)

\* the argument list of a synthesized call: the text inside .format( )
Arguments(call) ==
    SubSeq(call, FindChar(call, FindChar(call, 2, call[1]), "(") + 1, Len(call) - 1)

RECURSIVE CountPlaceholders(_, _)
\* the replacement fields str.format finds in a template from index i on
CountPlaceholders(t, i) ==
    IF i > Len(t) THEN 0
    ELSE IF t[i] \in {"{", "}"} /\ At(t, i + 1) = t[i] THEN CountPlaceholders(t, i + 2)
    ELSE IF t[i] = "{" THEN
         LET e == FindChar(t, i, "}")
         IN  1 + (IF e = 0 THEN 0 ELSE CountPlaceholders(t, e + 1))
    ELSE CountPlaceholders(t, i + 1)

RECURSIVE CountArguments(_, _)
\* the arguments of an argument list: one more than its separators ", "
CountArguments(a, i) ==
    IF a = <<>> THEN 0
    ELSE IF i > Len(a) THEN 1
    ELSE (IF a[i] = "," THEN 1 ELSE 0) + CountArguments(a, i + 1)

Embedded(children) == SelectSeq(children, LAMBDA c : c.kind = "FormattedValue")

\* an embedded expression as the literal writes it
ExprSource(expr) ==
    IF expr.kind = "JoinedStr" THEN <<"f", SQ, "{">> \o expr.name \o <<"}", SQ>>
    ELSE expr.name

RECURSIVE ArgumentsInOrder(_)
ArgumentsInOrder(exprs) ==
    IF exprs = <<>> THEN <<>>
    ELSE ExprSource(exprs[1].expr)
         \o (IF Len(exprs) > 1 THEN <<",", " ">> ELSE <<>>)
         \o ArgumentsInOrder(Tail(exprs))

\* the marker the claim gives each conversion directive
Marker(conversion) ==
    CASE conversion = 115 -> <<"!", "s">>
      [] conversion = 114 -> <<"!", "r">>
      [] conversion = 97 -> <<"!", "a">>
      [] OTHER -> <<>>

\* a format specifier as the literal writes it
SpecSource(format_spec) ==
    Flatten([i \in 1..Len(format_spec.values) |->
        IF format_spec.values[i].kind = "Const" THEN format_spec.values[i].value
        ELSE <<"{">> \o ExprSource(format_spec.values[i].expr) \o <<"}">>])

\* the placeholder the claim describes for an embedded expression
ClaimedPlaceholder(child) ==
    <<"{">> \o Marker(child.conversion)
    \o (IF child.format_spec.present
        THEN <<":">> \o SpecSource(child.format_spec) ELSE <<>>)
    \o <<"}">>

RECURSIVE Doubled(_)
\* a text with each brace doubled
Doubled(t) ==
    IF t = <<>> THEN <<>>
    ELSE (IF Head(t) \in {"{", "}"} THEN <<Head(t), Head(t)>> ELSE <<Head(t)>>)
         \o Doubled(Tail(t))

----------------------------------------------------------------------------
(* Claims *)

\* C1: a source with no f-string literal that parses is returned unchanged,
\* character for character, and the call does not raise
C1_Identity ==
    /\ pc = "raised" => ~(Parses(src) /\ ~HasFString(src))
    /\ pc = "done" => ((Parses(src) /\ ~HasFString(src)) => out = src)

\* C1 witness: a call has returned on a source without f-strings that holds
\* a lexeme starting with f and a string with braces
C1_Witness ==
    /\ pass = 1
    /\ pc = "done"
    /\ ~HasFString(src)
    /\ \E i \in 1..Len(tokens) : tokens[i].name = "NAME" /\ StartsWith(tokens[i].src, "f")
    /\ \E i \in 1..Len(tokens) : tokens[i].name = "STRING" /\ Contains(tokens[i].src, "{")

\* C2: during and after the loop the lexeme list has the length of the
\* input's, every lexeme keeps its name and position, and every lexeme whose
\* position is not located or whose text does not start with f keeps its
\* text; the returned text is the concatenation of that list
C2_Frame ==
    pc \in {"loop", "done"} =>
        LET orig == Original
        IN  /\ Len(tokens) = Len(orig)
            /\ \A i \in 1..Len(orig) :
                  /\ tokens[i].name = orig[i].name
                  /\ Offset(tokens[i]) = Offset(orig[i])
                  /\ (Offset(orig[i]) \notin fstrings \/ ~StartsWith(orig[i].src, "f"))
                     => tokens[i].src = orig[i].src
            /\ pc = "done" => out = tokens_to_src(tokens)

\* C2 witness: a call has returned having replaced a lexeme that was not the
\* first, beside a located lexeme that does not start with f and a lexeme
\* that starts with f at a position that is not located
C2_Witness ==
    /\ pass = 1
    /\ pc = "done"
    /\ \E i \in Replaced : i > 1
    /\ LET orig == Original
       IN  /\ \E i \in 1..Len(orig) :
                 Offset(orig[i]) \in fstrings /\ ~StartsWith(orig[i].src, "f")
           /\ \E i \in 1..Len(orig) :
                 Offset(orig[i]) \notin fstrings /\ StartsWith(orig[i].src, "f")

\* C3: a replaced literal with k embedded expressions became a call whose
\* template has exactly k placeholders and whose k arguments are the
\* embedded expressions in their order
C3_PlaceholderCount ==
    \A i \in Replaced :
        LET exprs == Embedded(extract_node(Original[i].src))
            call  == tokens[i].src
        IN  /\ CountPlaceholders(Template(call), 1) = Len(exprs)
            /\ CountArguments(Arguments(call), 1) = Len(exprs)
            /\ Arguments(call) = ArgumentsInOrder(exprs)

\* C4: the template of a replaced literal holds, for every embedded
\* expression, the placeholder { marker : whole specifier }, the text
\* segments standing between them as the code writes them
C4_Placeholder ==
    \A i \in Replaced :
        LET children == extract_node(Original[i].src)
        IN  Template(tokens[i].src) =
                Flatten([k \in 1..Len(children) |->
                    IF children[k].kind = "Const" THEN children[k].value
                    ELSE ClaimedPlaceholder(children[k])])

\* C5: the template of a replaced literal holds every text segment with its
\* braces doubled, the placeholders standing between them as the code
\* writes them
C5_BracesDoubled ==
    \A i \in Replaced :
        LET children == extract_node(Original[i].src)
        IN  Template(tokens[i].src) =
                Flatten([k \in 1..Len(children) |->
                    IF children[k].kind = "Const" THEN Doubled(children[k].value)
                    ELSE FormatStringPart(children[k])])

\* C6: a call that raises raises SyntaxError, and only on a source that does
\* not parse
C6_OnlySyntaxError ==
    pc = "raised" => (err = "SyntaxError" /\ ~Parses(src))

\* C7: the text returned for a source that parses holds no f-string literal
C7_AllConverted ==
    (pass = 1 /\ pc = "done") => ~HasFString(out)

\* C8: the second call, on the output of the first, returns that output
C8_SecondPassUnchanged ==
    (pass = 2 /\ pc = "done") => out = src

\* C9 as claimed: once read, the file holds the original or the converted
\* text at every point of the call, on every platform
C9_NeverPartial ==
    fpc # "start" => (disk.file.exists /\ disk.file.content \in {fsrc, mod})

\* C9 amended: where WINDOWS is false, the file holds the original or the
\* converted text at every point of the call, interrupted or not
C9_NeverPartialOffWindows ==
    (~WINDOWS /\ fpc # "start")
        => (disk.file.exists /\ disk.file.content \in {fsrc, mod})

\* C9 witness: the call was interrupted off Windows with the temporary file
\* half written
C9_Witness ==
    /\ ~WINDOWS
    /\ fpc = "interrupted"
    /\ disk.tmp.exists
    /\ disk.tmp.content # <<>>
    /\ disk.tmp.content # mod
    /\ fsrc # mod

RECURSIVE Composed(_, _)
\* cn(...c2(c1(text))...), for conversions that do not raise
Composed(cs, text) ==
    IF cs = <<>> THEN text ELSE Composed(Tail(cs), Call(Head(cs), text).text)

\* C10: when the loop over the conversions ends, mod is the composition of
\* the conversions applied to the text read
C10_Chained ==
    (fpc \in {"open", "diff", "return"} /\ ~(\E i \in 1..Len(conversions) : conversions[i] = "fail"))
        => mod = Composed(conversions, fsrc)

====
